---- MODULE Spec2Model ----
(***************************************************************************)
(* Model of the GraphQL schema compiler of siapi-plugin-graphql:           *)
(*   - services/types (src/unnamed/part_000): convertType,                 *)
(*     addPolymorphicUnionType, generateInputModel,                        *)
(*     generateInputPayloadArguments;                                      *)
(*   - services/schema-definitions.js: toSDL and its helpers;              *)
(*   - hooks/graphql/index.js: attachMetadataToResolvers, beforeInitialize *)
(*     and mergeSchemas.                                                   *)
(* Every function is an operator computed as the code computes it; each    *)
(* specification draws the inputs of one group of functions from bounded   *)
(* sets and applies them.                                                  *)
(***************************************************************************)
EXTENDS Integers, Sequences, FiniteSets, TLC

VARIABLES
  pc,          \* position of the running call / hook
  ctArgs,      \* convertType: {attribute, modelName, attributeName, rootType, action}
  ctResult,    \* convertType: the returned type reference
  imArgs,      \* generateInputModel: model (ordered attributes), name, allowIds
  imConfig,    \* config._schema.graphql.type.<globalId>.<attr>, per attribute
  imResult,    \* generateInputModel: the two input types emitted
  plArgs,      \* generateInputPayloadArguments: {model, name, mutationName, action}
  plResult,    \* generateInputPayloadArguments: the definitions emitted
  utDocument,  \* addPolymorphicUnionType: the merged definition text
  utResult,    \* addPolymorphicUnionType: {definition, resolvers}
  sdlArgs,     \* toSDL: fields, configurations, model
  sdlFields,   \* toSDL(..., 'field') text
  sdlOper,     \* toSDL(..., 'query' | 'mutation') text
  siapi,       \* hook: siapi.api, siapi.plugins and the loaded extensions
  schemas,     \* hook: apisSchemas, pluginsSchemas, extensionsSchemas
  mergeList,   \* hook: the array handed to mergeSchemas
  acc,         \* hook: the accumulator of mergeSchemas' reduce
  baseSchema   \* hook: config._schema.graphql of the graphql plugin

vars == <<pc, ctArgs, ctResult, imArgs, imConfig, imResult, plArgs, plResult,
          utDocument, utResult, sdlArgs, sdlFields, sdlOper,
          siapi, schemas, mergeList, acc, baseSchema>>

ctVars   == <<ctArgs, ctResult>>
imVars   == <<imArgs, imConfig, imResult>>
plVars   == <<plArgs, plResult>>
utVars   == <<utDocument, utResult>>
sdlVars  == <<sdlArgs, sdlFields, sdlOper>>
hookVars == <<siapi, schemas, mergeList, acc, baseSchema>>

\* JavaScript's undefined, for a property that is absent.
Undefined == "<undefined>"

-----------------------------------------------------------------------------
(* Naming helpers used by the type service (lodash, String.prototype and   *)
(* ./naming), tabulated on the names the model uses.                       *)

upperFirst(s) ==
  CASE s = "status"   -> "Status"
    [] s = "body"     -> "Body"
    [] s = "article"  -> "Article"
    [] s = "homepage" -> "Homepage"
    [] OTHER          -> s

camelCase(s) ==
  CASE s = "Status" -> "status"
    [] OTHER        -> s

toUpperCase(s) ==
  CASE s = "Article"  -> "ARTICLE"
    [] s = "status"   -> "STATUS"
    [] s = "body"     -> "BODY"
    [] OTHER          -> s

toSingular(s) ==
  CASE s = "articles" -> "article"
    [] s = "Articles" -> "Article"
    [] OTHER          -> s

toInputName(s) == upperFirst(toSingular(s)) \o "Input"

\* siapi.components[component].globalId
componentGlobalId(component) ==
  CASE component = "shared.media" -> "ComponentSharedMedia"
    [] OTHER                      -> "ComponentDefaultSeo"

\* siapi.db.getModel(ref, plugin).globalId
getModelGlobalId(ref) ==
  CASE ref = "tag"  -> "Tag"
    [] ref = "user" -> "UsersPermissionsUser"
    [] OTHER        -> "Article"

-----------------------------------------------------------------------------
(* convertType                                                             *)

Query    == "query"
Mutation == "mutation"

isScalarAttribute(attribute) ==
  /\ attribute.type # Undefined
  /\ attribute.type \notin {"component", "dynamiczone"}

convertEnumType(definition, model, field) ==
  IF definition.enumName # Undefined
    THEN definition.enumName
    ELSE "ENUM_" \o toUpperCase(model) \o "_" \o toUpperCase(field)

\* The switch on attribute.type; 'String' is the default.
scalarName(attribute, modelName, attributeName) ==
  CASE attribute.type = "boolean"     -> "Boolean"
    [] attribute.type = "integer"     -> "Int"
    [] attribute.type = "biginteger"  -> "Long"
    [] attribute.type = "float"       -> "Float"
    [] attribute.type = "decimal"     -> "Float"
    [] attribute.type = "json"        -> "JSON"
    [] attribute.type = "date"        -> "Date"
    [] attribute.type = "time"        -> "Time"
    [] attribute.type = "datetime"    -> "DateTime"
    [] attribute.type = "timestamp"   -> "DateTime"
    [] attribute.type = "enumeration" -> convertEnumType(attribute, modelName, attributeName)
    [] OTHER                          -> "String"

\* Mutants of scalarNonNull: the default value is not looked at; the update
\* action is not looked at.
scalarNonNullIgnoringDefault(attribute, rootType, action) ==
  /\ attribute.required
  /\ (rootType # Mutation \/ action # "update")

scalarNonNullIgnoringUpdate(attribute, rootType, action) ==
  /\ attribute.required
  /\ (rootType # Mutation \/ attribute.default = Undefined)

\* if (attribute.required) if (rootType !== 'mutation' || (action !== 'update'
\*   && attribute.default === undefined)) type += '!'
scalarNonNull(attribute, rootType, action) ==
  /\ attribute.required
  /\ (rootType # Mutation \/ (action # "update" /\ attribute.default = Undefined))

convertScalar(attribute, modelName, attributeName, rootType, action) ==
  LET type == scalarName(attribute, modelName, attributeName)
  IN  IF scalarNonNull(attribute, rootType, action) THEN type \o "!" ELSE type

convertComponent(attribute, rootType, action) ==
  LET globalId == componentGlobalId(attribute.component)
      typeName ==
        IF rootType = Mutation
          THEN IF action = "update"
                 THEN "edit" \o upperFirst(toSingular(globalId)) \o "Input"
                 ELSE upperFirst(toSingular(globalId)) \o "Input"
                        \o (IF attribute.required THEN "!" ELSE "")
          ELSE globalId
  IN  IF attribute.repeatable THEN "[" \o typeName \o "]" ELSE typeName

convertDynamicZone(attribute, modelName, attributeName, rootType) ==
  LET unionName == modelName \o upperFirst(camelCase(attributeName)) \o "DynamicZone"
      typeName  == IF rootType = Mutation THEN unionName \o "Input!" ELSE unionName
  IN  "[" \o typeName \o "]" \o (IF attribute.required THEN "!" ELSE "")

\* const ref = attribute.model || attribute.collection and what follows it.
convertRelation(attribute, rootType) ==
  LET ref == IF attribute.model # Undefined THEN attribute.model ELSE attribute.collection
  IN  IF ref # Undefined /\ ref # "*"
        THEN LET globalId == getModelGlobalId(ref)
                 plural   == attribute.collection # Undefined
             IN  IF plural
                   THEN IF rootType = Mutation THEN "[ID]" ELSE "[" \o globalId \o "]"
                   ELSE IF rootType = Mutation THEN "ID" ELSE globalId
        ELSE IF rootType = Mutation
               THEN IF attribute.model # Undefined THEN "ID" ELSE "[ID]"
               ELSE IF attribute.model # Undefined THEN "Morph" ELSE "[Morph]"

convertType(args) ==
  IF isScalarAttribute(args.attribute)
    THEN convertScalar(args.attribute, args.modelName, args.attributeName,
                       args.rootType, args.action)
  ELSE IF args.attribute.type = "component"
    THEN convertComponent(args.attribute, args.rootType, args.action)
  ELSE IF args.attribute.type = "dynamiczone"
    THEN convertDynamicZone(args.attribute, args.modelName, args.attributeName,
                            args.rootType)
  ELSE convertRelation(args.attribute, args.rootType)

\* The inputs of convertType that the specification draws.
AttributeTypes ==
  {Undefined, "boolean", "integer", "biginteger", "float", "decimal", "json",
   "date", "time", "datetime", "timestamp", "enumeration", "string", "richtext",
   "component", "dynamiczone"}

RelationTargets == {Undefined, "*", "tag"}

Attributes ==
  [type: AttributeTypes, required: BOOLEAN, default: {Undefined, "0"},
   enumName: {Undefined, "Status"}, component: {"shared.media"},
   repeatable: BOOLEAN, model: RelationTargets, collection: RelationTargets]

RootTypes == {Query, Mutation}
Actions   == {"", "create", "update", "delete"}

NoAttribute ==
  [type |-> Undefined, required |-> FALSE, default |-> Undefined,
   enumName |-> Undefined, component |-> "shared.media", repeatable |-> FALSE,
   model |-> Undefined, collection |-> Undefined]

NoConvertArgs ==
  [attribute |-> NoAttribute, modelName |-> "", attributeName |-> "",
   rootType |-> Query, action |-> ""]

ConvertType ==
  /\ pc = "convertType"
  /\ ctResult' = convertType(ctArgs)
  /\ pc' = "converted"
  /\ UNCHANGED <<ctArgs, imVars, plVars, utVars, sdlVars, hookVars>>

-----------------------------------------------------------------------------
(* generateInputModel                                                      *)

\* The attribute definitions a model of the specification can declare.
AttributeNames == {"title", "count", "tags", "body"}

attributeDefinition(name) ==
  CASE name = "title" -> [NoAttribute EXCEPT !.type = "string", !.required = TRUE]
    [] name = "count" -> [NoAttribute EXCEPT !.type = "integer", !.required = TRUE,
                                             !.default = "0"]
    [] name = "tags"  -> [NoAttribute EXCEPT !.collection = "tag"]
    [] OTHER          -> [NoAttribute EXCEPT !.type = "dynamiczone", !.required = TRUE]

\* _.get(siapi.plugins.graphql, `config._schema.graphql.type.${globalId}.${attr}`) !== false
isTypeAttributeEnabled(model, attr) == imConfig[attr] # "false"

\* A mutant of enabledAttributes: the visibility filter is dropped.
allAttributes(model) == model.attributes

\* Object.keys(model.attributes).filter(attr => isTypeAttributeEnabled(model, attr))
enabledAttributes(model) ==
  SelectSeq(model.attributes, LAMBDA attr : isTypeAttributeEnabled(model, attr))

Field(name, type) == [name |-> name, type |-> type]

inputFields(model, action) ==
  LET names == enabledAttributes(model)
  IN  [i \in 1..Len(names) |->
         Field(names[i],
               convertType([attribute |-> attributeDefinition(names[i]),
                            modelName |-> model.globalId,
                            attributeName |-> names[i],
                            rootType |-> Mutation,
                            action |-> action]))]

hasAllAttributesDisabled(model) ==
  \A i \in 1..Len(model.attributes) : ~isTypeAttributeEnabled(model, model.attributes[i])

generateInputModel(model, name, allowIds) ==
  LET inputName == upperFirst(toSingular(name)) \o "Input"
  IN  IF Len(model.attributes) = 0 \/ hasAllAttributesDisabled(model)
        THEN << [name |-> inputName, fields |-> <<Field("_", "String")>>],
                [name |-> "edit" \o inputName,
                 fields |-> <<IF allowIds THEN Field("id", "ID") ELSE Field("_", "String")>>] >>
        ELSE << [name |-> inputName, fields |-> inputFields(model, "")],
                [name |-> "edit" \o inputName,
                 fields |-> (IF allowIds THEN <<Field("id", "ID")>> ELSE <<>>)
                              \o inputFields(model, "update")] >>

MaxAttributes == 2

RECURSIVE DistinctSeqs(_, _)
DistinctSeqs(S, n) ==
  IF n = 0 THEN {<<>>}
  ELSE LET shorter == DistinctSeqs(S, n - 1)
       IN  shorter \cup
           {Append(q, x) : <<q, x>> \in
              {<<q, x>> \in shorter \X S : \A i \in 1..Len(q) : q[i] # x}}

Models ==
  [globalId: {"Article"}, kind: {"collectionType"},
   attributes: DistinctSeqs(AttributeNames, MaxAttributes)]

NoInputArgs ==
  [model |-> [globalId |-> "", kind |-> "", attributes |-> <<>>],
   name |-> "", allowIds |-> FALSE]

NoConfig == [a \in AttributeNames |-> Undefined]

GenerateInputModel ==
  /\ pc = "generateInputModel"
  /\ imResult' = generateInputModel(imArgs.model, imArgs.name, imArgs.allowIds)
  /\ pc' = "inputModelGenerated"
  /\ UNCHANGED <<imArgs, imConfig, ctVars, plVars, utVars, sdlVars, hookVars>>

-----------------------------------------------------------------------------
(* generateInputPayloadArguments                                           *)

Definition(keyword, name, fields) == [keyword |-> keyword, name |-> name, fields |-> fields]

payloadType(args) ==
  Definition("type", args.mutationName \o "Payload",
             <<Field(toSingular(args.name), args.model.globalId)>>)

\* A mutant of generateInputPayloadArguments: the singleType cases are not
\* told apart from the others.
generateInputPayloadArgumentsIgnoringKind(args) ==
  CASE args.action = "create" ->
         [returned |-> TRUE,
          text |-> << Definition("input", args.mutationName \o "Input",
                                 <<Field("data", toInputName(args.name))>>),
                      payloadType(args) >>]
    [] args.action = "update" ->
         [returned |-> TRUE,
          text |-> << Definition("input", args.mutationName \o "Input",
                                 <<Field("where", "InputID"),
                                   Field("data", "edit" \o toInputName(args.name))>>),
                      payloadType(args) >>]
    [] args.action = "delete" ->
         [returned |-> TRUE,
          text |-> << Definition("input", args.mutationName \o "Input",
                                 <<Field("where", "InputID")>>),
                      payloadType(args) >>]
    [] OTHER -> [returned |-> FALSE, text |-> <<>>]

\* The switch on action; no case matches any other action and the function
\* returns undefined.
generateInputPayloadArguments(args) ==
  CASE args.action = "create" ->
         [returned |-> TRUE,
          text |-> << Definition("input", args.mutationName \o "Input",
                                 <<Field("data", toInputName(args.name))>>),
                      payloadType(args) >>]
    [] args.action = "update" /\ args.model.kind = "singleType" ->
         [returned |-> TRUE,
          text |-> << Definition("input", args.mutationName \o "Input",
                                 <<Field("data", "edit" \o toInputName(args.name))>>),
                      payloadType(args) >>]
    [] args.action = "update" /\ args.model.kind # "singleType" ->
         [returned |-> TRUE,
          text |-> << Definition("input", args.mutationName \o "Input",
                                 <<Field("where", "InputID"),
                                   Field("data", "edit" \o toInputName(args.name))>>),
                      payloadType(args) >>]
    [] args.action = "delete" /\ args.model.kind = "singleType" ->
         [returned |-> TRUE, text |-> << payloadType(args) >>]
    [] args.action = "delete" /\ args.model.kind # "singleType" ->
         [returned |-> TRUE,
          text |-> << Definition("input", args.mutationName \o "Input",
                                 <<Field("where", "InputID")>>),
                      payloadType(args) >>]
    [] OTHER -> [returned |-> FALSE, text |-> <<>>]

PayloadArgs ==
  [model: [globalId: {"Article", "Homepage"},
           kind: {"singleType", "collectionType", Undefined},
           attributes: {<<>>}],
   name: {"articles", "homepage"},
   mutationName: {"createArticle", "updateArticle", "deleteArticle", "updateHomepage"},
   action: Actions]

NoPayloadArgs ==
  [model |-> [globalId |-> "", kind |-> "", attributes |-> <<>>],
   name |-> "", mutationName |-> "", action |-> ""]

NoPayload == [returned |-> FALSE, text |-> <<>>]

GenerateInputPayloadArguments ==
  /\ pc = "generateInputPayloadArguments"
  /\ plResult' = generateInputPayloadArguments(plArgs)
  /\ pc' = "payloadGenerated"
  /\ UNCHANGED <<plArgs, ctVars, imVars, utVars, sdlVars, hookVars>>

-----------------------------------------------------------------------------
(* addPolymorphicUnionType                                                 *)

\* The definition text is a sequence of top-level definitions, each written
\* with its keyword and its name; graphql.parse gives each its AST kind.
definitionKind(keyword) ==
  CASE keyword = "type"        -> "ObjectTypeDefinition"
    [] keyword = "input"       -> "InputObjectTypeDefinition"
    [] keyword = "enum"        -> "EnumTypeDefinition"
    [] keyword = "extend type" -> "ObjectTypeExtension"
    [] OTHER                   -> "InterfaceTypeDefinition"

parse(definition) ==
  [i \in 1..Len(definition) |->
     [kind |-> definitionKind(definition[i].keyword), name |-> definition[i].name]]

isMorphCandidate(def) == def.kind = "ObjectTypeDefinition" /\ def.name # "Query"

\* .filter(...).map(def => def.name.value)
morphTypes(definition) ==
  LET kept == SelectSeq(parse(definition), isMorphCandidate)
  IN  [i \in 1..Len(kept) |-> kept[i].name]

RECURSIVE join(_, _)
join(strings, separator) ==
  IF Len(strings) = 0 THEN ""
  ELSE IF Len(strings) = 1 THEN strings[1]
  ELSE strings[1] \o separator \o join(Tail(strings), separator)

\* members: the list the union definition was joined from.
addPolymorphicUnionType(definition) ==
  LET types == morphTypes(definition)
  IN  IF Len(types) > 0
        THEN [definition |-> "union Morph = " \o join(types, " | "),
              members    |-> types,
              resolvers  |-> {"Morph"}]
        ELSE [definition |-> "", members |-> <<>>, resolvers |-> {}]

MaxDefinitions == 3

Keywords  == {"type", "input", "extend type"}
TypeNames == {"Query", "Article", "Tag"}

RECURSIVE SeqsUpTo(_, _)
SeqsUpTo(S, n) ==
  IF n = 0 THEN {<<>>}
  ELSE LET shorter == SeqsUpTo(S, n - 1)
       IN  shorter \cup {Append(q, x) : <<q, x>> \in shorter \X S}

\* A text that graphql.parse accepts holds at least one definition.
Documents ==
  SeqsUpTo([keyword: Keywords, name: TypeNames], MaxDefinitions) \ {<<>>}

NoUnion == [definition |-> "", members |-> <<>>, resolvers |-> {}]

AddPolymorphicUnionType ==
  /\ pc = "addPolymorphicUnionType"
  /\ utResult' = addPolymorphicUnionType(utDocument)
  /\ pc' = "unionAdded"
  /\ UNCHANGED <<utDocument, ctVars, imVars, plVars, sdlVars, hookVars>>

-----------------------------------------------------------------------------
(* schema-definitions.js: toSDL                                            *)

\* A key of the fields object is kept as its pieces, e.g. "posts", "(",
\* "limit: Int", ")"; its text is their concatenation.
keyText(key) == join(key, "")

\* key.split('(')[0]
RECURSIVE beforeParenthesis(_)
beforeParenthesis(key) ==
  IF Len(key) = 0 \/ Head(key) = "(" THEN <<>>
  ELSE <<Head(key)>> \o beforeParenthesis(Tail(key))

\* _.trim
RECURSIVE trimStart(_)
trimStart(pieces) ==
  IF Len(pieces) > 0 /\ Head(pieces) = " " THEN trimStart(Tail(pieces)) ELSE pieces

RECURSIVE trimEnd(_)
trimEnd(pieces) ==
  IF Len(pieces) > 0 /\ pieces[Len(pieces)] = " "
    THEN trimEnd(SubSeq(pieces, 1, Len(pieces) - 1))
    ELSE pieces

attributeNameOf(key) == join(trimEnd(trimStart(beforeParenthesis(key))), "")

\* A falsy string: undefined or ''.
truthy(str) == str # Undefined /\ str # ""

\* a || b
orElse(a, b) == IF truthy(a) THEN a ELSE b

\* A configuration entry is absent, a string, or an object that may carry
\* description and deprecated.
NoEntry == [kind |-> "absent", text |-> Undefined, description |-> Undefined,
            deprecated |-> Undefined]

lookup(map, name) == IF name \in DOMAIN map THEN map[name] ELSE NoEntry

\* const { description, deprecated } = metadatas, metadatas = {} by default
metadatasOf(entry) ==
  IF entry.kind = "object"
    THEN [description |-> entry.description, deprecated |-> entry.deprecated]
    ELSE [description |-> Undefined, deprecated |-> Undefined]

applyMetadatas(definition, metadatas) ==
  LET described ==
        IF truthy(metadatas.description)
          THEN "\"\"\"\n" \o metadatas.description \o "\n\"\"\"\n" \o definition
          ELSE definition
  IN  IF truthy(metadatas.deprecated)
        THEN described \o " @deprecated(reason: \"" \o metadatas.deprecated \o "\")"
        ELSE described

\* `${value}` of a field value: a descriptor object prints as [object Object].
valueText(value) == IF value.isString THEN value.type ELSE "[object Object]"

fieldToSDL(entry, configurations, model) ==
  LET attributeName == attributeNameOf(entry.key)
      configuration == lookup(configurations, attributeName)
      attribute     == lookup(model.attributes, attributeName)
      description   ==
        IF configuration.kind = "string"
          THEN configuration.text
          ELSE orElse(metadatasOf(configuration).description, attribute.description)
      deprecated    == orElse(metadatasOf(configuration).deprecated, attribute.deprecated)
  IN  applyMetadatas(keyText(entry.key) \o ": " \o valueText(entry.value),
                     [description |-> description, deprecated |-> deprecated])

fieldsToSDL(fields, configurations, model) ==
  join([i \in 1..Len(fields) |-> fieldToSDL(fields[i], configurations, model)], "\n")

argumentsToSDL(args) ==
  IF Len(args) = 0 THEN ""
  ELSE "(" \o join([i \in 1..Len(args) |-> args[i].name \o ": " \o args[i].type], ", ")
           \o ")"

\* A mutant of operationFieldToSDL: a plain type string's configuration is
\* looked up under the whole key, as a descriptor's is.
operationFieldToSDLByKey(entry, configurations) ==
  IF entry.value.isString
    THEN applyMetadatas(keyText(entry.key) \o ": " \o entry.value.type,
                        metadatasOf(lookup(configurations, keyText(entry.key))))
    ELSE applyMetadatas(keyText(entry.key) \o argumentsToSDL(entry.value.args)
                          \o ": " \o entry.value.type,
                        metadatasOf(lookup(configurations, keyText(entry.key))))

operationFieldToSDL(entry, configurations) ==
  IF entry.value.isString
    THEN applyMetadatas(keyText(entry.key) \o ": " \o entry.value.type,
                        metadatasOf(lookup(configurations, attributeNameOf(entry.key))))
    ELSE applyMetadatas(keyText(entry.key) \o argumentsToSDL(entry.value.args)
                          \o ": " \o entry.value.type,
                        metadatasOf(lookup(configurations, keyText(entry.key))))

operationToSDL(fields, configurations) ==
  join([i \in 1..Len(fields) |-> operationFieldToSDL(fields[i], configurations)], "\n")

toSDL(fields, configurations, model, type) ==
  IF type \in {"query", "mutation"}
    THEN operationToSDL(fields, configurations)
    ELSE fieldsToSDL(fields, configurations, model)

MaxFields == 2

FieldKeys ==
  { <<"posts">>, <<"posts", "(", "limit: Int", ")">>, <<"title", " ">> }

FieldValues ==
  { [isString |-> TRUE,  type |-> "String", args |-> <<>>],
    [isString |-> FALSE, type |-> "Post",   args |-> <<>>],
    [isString |-> FALSE, type |-> "Post",   args |-> <<Field("id", "ID!")>>] }

RECURSIVE FieldMaps(_)
FieldMaps(n) ==
  IF n = 0 THEN {<<>>}
  ELSE LET shorter == FieldMaps(n - 1)
       IN  shorter \cup
           {Append(q, e) : <<q, e>> \in
              {<<q, e>> \in shorter \X [key: FieldKeys, value: FieldValues] :
                 \A i \in 1..Len(q) : q[i].key # e.key}}

ObjectEntries ==
  [kind: {"object"}, text: {Undefined}, description: {Undefined, "The posts"},
   deprecated: {Undefined, "Use articles"}]

ConfigurationEntries ==
  {NoEntry, [NoEntry EXCEPT !.kind = "string", !.text = "A summary"]} \cup ObjectEntries

SdlArgs ==
  [fields: FieldMaps(MaxFields),
   configurations: [{"posts", "title"} -> ConfigurationEntries],
   model: [attributes: [{"posts"} -> {NoEntry} \cup ObjectEntries]]]

NoSdlArgs ==
  [fields |-> <<>>,
   configurations |-> [n \in {"posts", "title"} |-> NoEntry],
   model |-> [attributes |-> [n \in {"posts"} |-> NoEntry]]]

RenderFields ==
  /\ pc = "toSDL"
  /\ sdlFields' = toSDL(sdlArgs.fields, sdlArgs.configurations, sdlArgs.model, "field")
  /\ pc' = "fieldsRendered"
  /\ UNCHANGED <<sdlArgs, sdlOper, ctVars, imVars, plVars, utVars, hookVars>>

RenderOperation ==
  /\ pc = "fieldsRendered"
  /\ \E type \in {"query", "mutation"} :
       sdlOper' = toSDL(sdlArgs.fields, sdlArgs.configurations, sdlArgs.model, type)
  /\ pc' = "operationRendered"
  /\ UNCHANGED <<sdlArgs, sdlFields, ctVars, imVars, plVars, utVars, hookVars>>

-----------------------------------------------------------------------------
(* hooks/graphql/index.js: the values of a schema fragment                 *)

\* A JavaScript value is a plain object (its own keys and their values), a
\* function, a string (kept as its pieces) or undefined.
Leaf(kind, val) == [kind |-> kind, val |-> val, fields |-> <<>>]
Obj(fields)     == [kind |-> "obj", val |-> <<>>, fields |-> fields]
Fn(id)          == Leaf("fn", <<id>>)
Str(pieces)     == Leaf("str", pieces)
Undef           == Leaf("undef", <<>>)
EmptyObj        == Obj(<<>>)

isPlainObject(value) == value.kind = "obj"

keys(value) == IF isPlainObject(value) THEN DOMAIN value.fields ELSE {}

\* value[key], undefined when the key is absent
get(value, key) == IF key \in keys(value) THEN value.fields[key] ELSE Undef

\* value[key] = newValue on a plain object
set(value, key, newValue) ==
  Obj([k \in keys(value) \cup {key} |-> IF k = key THEN newValue ELSE value.fields[k]])

\* _.isEmpty
isEmpty(value) ==
  CASE value.kind = "obj" -> keys(value) = {}
    [] value.kind = "str" -> value.val = <<>>
    [] OTHER              -> TRUE

\* `${text || ''}`
textOf(value) == IF value.kind = "str" THEN value.val ELSE <<>>

\* A mutant of merge: _.assign, the later value replaces the earlier whole.
assign(object, source) ==
  Obj([k \in keys(object) \cup keys(source) |->
         IF k \in keys(source) THEN source.fields[k] ELSE object.fields[k]])

\* _.merge(object, source). A plain object of the source is merged recursively
\* into the destination's plain object, or into a new object when the
\* destination holds none; a function or a string replaces the destination's
\* value; undefined is skipped when the destination has the key.
RECURSIVE merge(_, _)
merge(object, source) ==
  Obj([k \in keys(object) \cup keys(source) |->
         IF k \notin keys(source) THEN object.fields[k]
         ELSE LET srcValue == source.fields[k]
                  objValue == get(object, k)
              IN  IF isPlainObject(srcValue)
                    THEN merge(IF isPlainObject(objValue) THEN objValue ELSE EmptyObj,
                               srcValue)
                  ELSE IF srcValue.kind = "undef" /\ k \in keys(object)
                    THEN objValue
                  ELSE srcValue])

\* { api, plugin } with the one that was not passed undefined
metadatas(api, plugin) ==
  Obj([k \in {"api", "plugin"} |->
         LET v == IF k = "api" THEN api ELSE plugin
         IN  IF v = Undefined THEN Undef ELSE Str(<<v>>)])

attachToType(type, api, plugin) ==
  IF ~isPlainObject(type) THEN type
  ELSE Obj([resolverName \in keys(type) |->
              IF ~isPlainObject(type.fields[resolverName])
                THEN type.fields[resolverName]
                ELSE set(type.fields[resolverName], "_metadatas", metadatas(api, plugin))])

attachMetadataToResolvers(schema, api, plugin) ==
  LET resolver == IF get(schema, "resolver").kind = "undef"
                    THEN EmptyObj ELSE get(schema, "resolver")
  IN  IF isEmpty(resolver) THEN schema
      ELSE set(schema, "resolver",
               Obj([type \in keys(resolver) |->
                      attachToType(resolver.fields[type], api, plugin)]))

\* One iteration of mergeSchemas' reduce.
mergeStep(accumulator, el) ==
  merge(accumulator,
        Obj([k \in {"definition", "query", "mutation", "type", "resolver"} |->
               IF k \in {"type", "resolver"} THEN get(el, k)
               ELSE Str(textOf(get(accumulator, k)) \o <<" ">> \o textOf(get(el, k)))]))

\* A mutant of mergeOrder: the application's APIs come first.
mergeOrderApisFirst(apisSchemas, pluginsSchemas, extensionsSchemas) ==
  apisSchemas \o pluginsSchemas \o extensionsSchemas

\* [...pluginsSchemas, ...extensionsSchemas, ...apisSchemas]
mergeOrder(apisSchemas, pluginsSchemas, extensionsSchemas) ==
  pluginsSchemas \o extensionsSchemas \o apisSchemas

-----------------------------------------------------------------------------
(* hooks/graphql/index.js: beforeInitialize                                *)

MaxSources == 1

\* Object.keys order of siapi.api, siapi.plugins and extensions.
ApiKeys       == <<"article", "tag", "page">>
PluginKeys    == <<"upload", "users", "email">>
ExtensionKeys == PluginKeys

Templates == {"empty", "function", "full", "thin"}

\* config.schema.graphql of the source `id`; every text and value names its
\* source.
fragment(template, id) ==
  CASE template = "function" ->
         Obj([k \in {"definition", "query", "resolver", "type"} |->
                CASE k = "definition" -> Str(<<id \o ".definition">>)
                  [] k = "query"      -> Str(<<id \o ".query">>)
                  [] k = "resolver"   ->
                       Obj([t \in {"Query"} |-> Obj([r \in {"x"} |-> Fn(id)])])
                  [] OTHER            ->
                       Obj([t \in {"Article"} |->
                              Obj([f \in {"title"} |-> Str(<<id>>)])])])
    [] template = "full" ->
         Obj([k \in {"definition", "mutation", "resolver", "type"} |->
                CASE k = "definition" -> Str(<<id \o ".definition">>)
                  [] k = "mutation"   -> Str(<<id \o ".mutation">>)
                  [] k = "resolver"   ->
                       Obj([t \in {"Query"} |->
                              Obj([r \in {"x"} |->
                                     Obj([f \in {"resolver", "policies"} |->
                                            Str(<<id>>)])])])
                  [] OTHER            ->
                       Obj([t \in {"Article"} |->
                              Obj([f \in {"title"} |->
                                     Obj([m \in {"description", "deprecated"} |->
                                            Str(<<id>>)])])])])
    [] template = "thin" ->
         Obj([k \in {"definition", "resolver", "type"} |->
                CASE k = "definition" -> Str(<<id \o ".definition">>)
                  [] k = "resolver"   ->
                       Obj([t \in {"Query"} |->
                              Obj([r \in {"x"} |->
                                     Obj([f \in {"resolver"} |-> Str(<<id>>)])])])
                  [] OTHER            ->
                       Obj([t \in {"Article"} |->
                              Obj([f \in {"title"} |->
                                     Obj([m \in {"description"} |-> Str(<<id>>)])])])])
    [] OTHER -> EmptyObj

Source(kind, key, template) ==
  [key |-> key, kind |-> kind, schema |-> fragment(template, kind \o "." \o key)]

\* The sources of one kind: the first n keys, each with any template.
Sources(kind, keyList) ==
  UNION { { [i \in 1..n |-> Source(kind, keyList[i], choice[i])] :
              choice \in [1..n -> Templates] } : n \in 0..MaxSources }

NoSiapi   == [api |-> <<>>, plugins |-> <<>>, extensions |-> <<>>]
NoSchemas == [apis |-> <<>>, plugins |-> <<>>, extensions |-> <<>>]
NoAcc     == [i |-> 0, value |-> EmptyObj]

\* apisSchemas: the next key of siapi.api, annotated in place.
AttachApi ==
  /\ pc = "beforeInitialize"
  /\ Len(schemas.apis) < Len(siapi.api)
  /\ LET i      == Len(schemas.apis) + 1
         schema == attachMetadataToResolvers(siapi.api[i].schema,
                                             siapi.api[i].key, Undefined)
     IN  /\ siapi' = [siapi EXCEPT !.api[i].schema = schema]
         /\ schemas' = [schemas EXCEPT !.apis = Append(@, schema)]
  /\ UNCHANGED <<pc, mergeList, acc, baseSchema, ctVars, imVars, plVars, utVars, sdlVars>>

\* pluginsSchemas
AttachPlugin ==
  /\ pc = "beforeInitialize"
  /\ Len(schemas.apis) = Len(siapi.api)
  /\ Len(schemas.plugins) < Len(siapi.plugins)
  /\ LET i      == Len(schemas.plugins) + 1
         schema == attachMetadataToResolvers(siapi.plugins[i].schema,
                                             Undefined, siapi.plugins[i].key)
     IN  /\ siapi' = [siapi EXCEPT !.plugins[i].schema = schema]
         /\ schemas' = [schemas EXCEPT !.plugins = Append(@, schema)]
  /\ UNCHANGED <<pc, mergeList, acc, baseSchema, ctVars, imVars, plVars, utVars, sdlVars>>

\* extensionsSchemas
AttachExtension ==
  /\ pc = "beforeInitialize"
  /\ Len(schemas.apis) = Len(siapi.api)
  /\ Len(schemas.plugins) = Len(siapi.plugins)
  /\ Len(schemas.extensions) < Len(siapi.extensions)
  /\ LET i      == Len(schemas.extensions) + 1
         schema == attachMetadataToResolvers(siapi.extensions[i].schema,
                                             Undefined, siapi.extensions[i].key)
     IN  /\ siapi' = [siapi EXCEPT !.extensions[i].schema = schema]
         /\ schemas' = [schemas EXCEPT !.extensions = Append(@, schema)]
  /\ UNCHANGED <<pc, mergeList, acc, baseSchema, ctVars, imVars, plVars, utVars, sdlVars>>

\* mergeSchemas([...]) is called: reduce starts from {}.
MergeSchemasCall ==
  /\ pc = "beforeInitialize"
  /\ Len(schemas.apis) = Len(siapi.api)
  /\ Len(schemas.plugins) = Len(siapi.plugins)
  /\ Len(schemas.extensions) = Len(siapi.extensions)
  /\ mergeList' = mergeOrder(schemas.apis, schemas.plugins, schemas.extensions)
  /\ acc' = NoAcc
  /\ pc' = "mergeSchemas"
  /\ UNCHANGED <<siapi, schemas, baseSchema, ctVars, imVars, plVars, utVars, sdlVars>>

MergeSchemasStep ==
  /\ pc = "mergeSchemas"
  /\ acc.i < Len(mergeList)
  /\ acc' = [i |-> acc.i + 1, value |-> mergeStep(acc.value, mergeList[acc.i + 1])]
  /\ UNCHANGED <<pc, siapi, schemas, mergeList, baseSchema,
                 ctVars, imVars, plVars, utVars, sdlVars>>

\* _.set(siapi.plugins.graphql, 'config._schema.graphql', baseSchema)
SaveBaseSchema ==
  /\ pc = "mergeSchemas"
  /\ acc.i = Len(mergeList)
  /\ baseSchema' = acc.value
  /\ pc' = "initialized"
  /\ UNCHANGED <<siapi, schemas, mergeList, acc, ctVars, imVars, plVars, utVars, sdlVars>>

-----------------------------------------------------------------------------
(* Specifications                                                          *)

IdleConvert == ctArgs = NoConvertArgs /\ ctResult = ""
IdleInput   == imArgs = NoInputArgs /\ imConfig = NoConfig /\ imResult = <<>>
IdlePayload == plArgs = NoPayloadArgs /\ plResult = NoPayload
IdleUnion   == utDocument = <<>> /\ utResult = NoUnion
IdleSdl     == sdlArgs = NoSdlArgs /\ sdlFields = "" /\ sdlOper = ""
IdleHook    == /\ siapi = NoSiapi /\ schemas = NoSchemas /\ mergeList = <<>>
               /\ acc = NoAcc /\ baseSchema = EmptyObj

InitConvert ==
  /\ pc = "convertType"
  /\ ctArgs \in [attribute: Attributes, modelName: {"Article"},
                 attributeName: {"status"}, rootType: RootTypes, action: Actions]
  /\ ctResult = ""
  /\ IdleInput /\ IdlePayload /\ IdleUnion /\ IdleSdl /\ IdleHook

InitInputModel ==
  /\ pc = "generateInputModel"
  /\ imArgs \in [model: Models, name: {"articles"}, allowIds: BOOLEAN]
  /\ imConfig \in [AttributeNames -> {Undefined, "true", "false"}]
  /\ imResult = <<>>
  /\ IdleConvert /\ IdlePayload /\ IdleUnion /\ IdleSdl /\ IdleHook

InitPayload ==
  /\ pc = "generateInputPayloadArguments"
  /\ plArgs \in PayloadArgs
  /\ plResult = NoPayload
  /\ IdleConvert /\ IdleInput /\ IdleUnion /\ IdleSdl /\ IdleHook

InitUnion ==
  /\ pc = "addPolymorphicUnionType"
  /\ utDocument \in Documents
  /\ utResult = NoUnion
  /\ IdleConvert /\ IdleInput /\ IdlePayload /\ IdleSdl /\ IdleHook

InitSdl ==
  /\ pc = "toSDL"
  /\ sdlArgs \in SdlArgs
  /\ sdlFields = "" /\ sdlOper = ""
  /\ IdleConvert /\ IdleInput /\ IdlePayload /\ IdleUnion /\ IdleHook

InitHook ==
  /\ pc = "beforeInitialize"
  /\ siapi \in [api: Sources("api", ApiKeys), plugins: Sources("plugin", PluginKeys),
                extensions: Sources("extension", ExtensionKeys)]
  /\ schemas = NoSchemas /\ mergeList = <<>> /\ acc = NoAcc /\ baseSchema = EmptyObj
  /\ IdleConvert /\ IdleInput /\ IdlePayload /\ IdleUnion /\ IdleSdl

NextConvert == ConvertType
NextInput   == GenerateInputModel
NextPayload == GenerateInputPayloadArguments
NextUnion   == AddPolymorphicUnionType
NextSdl     == RenderFields \/ RenderOperation
NextHook    == \/ AttachApi \/ AttachPlugin \/ AttachExtension
               \/ MergeSchemasCall \/ MergeSchemasStep \/ SaveBaseSchema

SpecConvert == InitConvert /\ [][NextConvert]_vars
SpecInput   == InitInputModel /\ [][NextInput]_vars
SpecPayload == InitPayload /\ [][NextPayload]_vars
SpecUnion   == InitUnion /\ [][NextUnion]_vars
SpecSdl     == InitSdl /\ [][NextSdl]_vars
SpecHook    == InitHook /\ [][NextHook]_vars

Init == \/ InitConvert \/ InitInputModel \/ InitPayload
        \/ InitUnion \/ InitSdl \/ InitHook
Next == NextConvert \/ NextInput \/ NextPayload \/ NextUnion \/ NextSdl \/ NextHook
Spec == Init /\ [][Next]_vars

-----------------------------------------------------------------------------
(* Claims about convertType, checked under SpecConvert                     *)

\* C1: for a scalar attribute, convertType returns the mapped scalar name
\* followed by '!' if and only if the attribute is required and it is not the
\* case that rootType is mutation and (action is update or a default value is
\* present); otherwise it returns the mapped scalar name alone.
C1_ScalarNonNullRule ==
  (pc = "converted" /\ isScalarAttribute(ctArgs.attribute)) =>
    LET a    == ctArgs.attribute
        name == scalarName(a, ctArgs.modelName, ctArgs.attributeName)
        bang == a.required
                /\ ~(ctArgs.rootType = Mutation
                     /\ (ctArgs.action = "update" \/ a.default # Undefined))
    IN  /\ bang  => ctResult = name \o "!"
        /\ ~bang => ctResult = name
        /\ a.type = "integer" => name = "Int"

\* A required integer was converted for an update mutation: 'Int'.
C1_Witness ==
  /\ pc = "converted"
  /\ ctArgs.attribute.type = "integer" /\ ctArgs.attribute.required
  /\ ctArgs.attribute.default = Undefined
  /\ ctArgs.rootType = Mutation /\ ctArgs.action = "update"
  /\ ctResult = "Int"

\* C2 as stated: a required scalar attribute that carries a default value is
\* rendered without '!' in every rendering context, query included.
C2_DefaultRelaxesEverywhere ==
  (/\ pc = "converted" /\ isScalarAttribute(ctArgs.attribute)
   /\ ctArgs.attribute.required /\ ctArgs.attribute.default # Undefined) =>
    ctResult = scalarName(ctArgs.attribute, ctArgs.modelName, ctArgs.attributeName)

\* C2 amended: a required scalar attribute that carries a default value is
\* rendered without '!' in mutation context (every action) and with '!' in
\* query context.
C2_DefaultRelaxesInMutationOnly ==
  (/\ pc = "converted" /\ isScalarAttribute(ctArgs.attribute)
   /\ ctArgs.attribute.required /\ ctArgs.attribute.default # Undefined) =>
    LET name == scalarName(ctArgs.attribute, ctArgs.modelName, ctArgs.attributeName)
    IN  ctResult = IF ctArgs.rootType = Mutation THEN name ELSE name \o "!"

\* {type: 'integer', required: true, default: 0} converted in query context.
C2_Witness ==
  /\ pc = "converted"
  /\ ctArgs.attribute.type = "integer" /\ ctArgs.attribute.required
  /\ ctArgs.attribute.default = "0"
  /\ ctArgs.rootType = Query
  /\ ctResult = "Int!"

\* C5: a relation attribute (no type) whose collection is set is converted to
\* '[ID]' in mutation context, for every action and every target, also when
\* the attribute carries a model value.
C5_PluralRelationIsIdList ==
  (/\ pc = "converted"
   /\ ctArgs.attribute.type = Undefined
   /\ ctArgs.attribute.collection # Undefined
   /\ ctArgs.rootType = Mutation) =>
    ctResult = "[ID]"

-----------------------------------------------------------------------------
(* Claims about generateInputPayloadArguments, checked under SpecPayload   *)

definitionsNamed(text, keyword, name) ==
  {i \in 1..Len(text) : text[i].keyword = keyword /\ text[i].name = name}

hasField(definition, name, type) ==
  \E j \in 1..Len(definition.fields) :
    definition.fields[j].name = name /\ definition.fields[j].type = type

hasFieldNamed(definition, name) ==
  \E j \in 1..Len(definition.fields) : definition.fields[j].name = name

\* C4: for create, update and delete and every kind: the Payload type is always
\* emitted; the Input is emitted except for (delete, singleType); the input has
\* 'where: InputID' iff kind is not singleType and action is update or delete;
\* it has 'data' iff action is create (typed <X>Input) or update (edit<X>Input).
C4_PayloadTable ==
  (pc = "payloadGenerated" /\ plArgs.action \in {"create", "update", "delete"}) =>
    LET text     == plResult.text
        single   == plArgs.model.kind = "singleType"
        payloads == definitionsNamed(text, "type", plArgs.mutationName \o "Payload")
        inputs   == definitionsNamed(text, "input", plArgs.mutationName \o "Input")
        X        == toInputName(plArgs.name)
    IN  /\ plResult.returned
        /\ Cardinality(payloads) = 1
        /\ Cardinality(inputs) = IF plArgs.action = "delete" /\ single THEN 0 ELSE 1
        /\ Len(text) = Cardinality(payloads) + Cardinality(inputs)
        /\ \A i \in inputs :
             /\ hasFieldNamed(text[i], "where")
                  <=> (~single /\ plArgs.action \in {"update", "delete"})
             /\ hasFieldNamed(text[i], "where") => hasField(text[i], "where", "InputID")
             /\ hasFieldNamed(text[i], "data") <=> plArgs.action \in {"create", "update"}
             /\ plArgs.action = "create" => hasField(text[i], "data", X)
             /\ plArgs.action = "update" => hasField(text[i], "data", "edit" \o X)

\* delete on a singleType: the payload type alone.
C4_Witness ==
  /\ pc = "payloadGenerated"
  /\ plArgs.action = "delete" /\ plArgs.model.kind = "singleType"
  /\ Len(plResult.text) = 1 /\ plResult.text[1].keyword = "type"

-----------------------------------------------------------------------------
(* Claims about generateInputModel, checked under SpecInput                *)

fieldNames(input) == [j \in 1..Len(input.fields) |-> input.fields[j].name]

enabledOf(model) == SelectSeq(model.attributes, LAMBDA a : imConfig[a] # "false")

degenerateInputs(allowIds) ==
  /\ imResult[1].fields = <<Field("_", "String")>>
  /\ imResult[2].fields = <<IF allowIds THEN Field("id", "ID") ELSE Field("_", "String")>>

\* C7 as stated: no input type has zero fields; with no attributes or all of
\* them disabled the inputs hold the placeholders only; in every other case
\* both input types list exactly the enabled attributes, in declaration order.
C7_InputsListExactlyEnabled ==
  pc = "inputModelGenerated" =>
    LET enabled == enabledOf(imArgs.model)
    IN  /\ Len(imResult) = 2
        /\ Len(imResult[1].fields) > 0 /\ Len(imResult[2].fields) > 0
        /\ enabled = <<>> => degenerateInputs(imArgs.allowIds)
        /\ enabled # <<>> => /\ fieldNames(imResult[1]) = enabled
                             /\ fieldNames(imResult[2]) = enabled

\* C7 amended: as stated, except that in the other cases the edit input lists
\* 'id: ID' first when allowIds is true, followed by exactly the enabled
\* attributes; the create input lists exactly the enabled attributes.
C7_InputsListEnabledAfterId ==
  pc = "inputModelGenerated" =>
    LET enabled == enabledOf(imArgs.model)
    IN  /\ Len(imResult) = 2
        /\ Len(imResult[1].fields) > 0 /\ Len(imResult[2].fields) > 0
        /\ enabled = <<>> => degenerateInputs(imArgs.allowIds)
        /\ enabled # <<>> =>
             /\ fieldNames(imResult[1]) = enabled
             /\ imArgs.allowIds =>
                  /\ Head(imResult[2].fields) = Field("id", "ID")
                  /\ Tail(fieldNames(imResult[2])) = enabled
             /\ ~imArgs.allowIds => fieldNames(imResult[2]) = enabled

\* Two attributes, the first disabled, allowIds: the edit input is id and the
\* second attribute.
C7_Witness ==
  /\ pc = "inputModelGenerated"
  /\ imArgs.allowIds
  /\ Len(imArgs.model.attributes) = 2
  /\ imConfig[imArgs.model.attributes[1]] = "false"
  /\ imConfig[imArgs.model.attributes[2]] # "false"
  /\ fieldNames(imResult[1]) = <<imArgs.model.attributes[2]>>
  /\ fieldNames(imResult[2]) = <<"id", imArgs.model.attributes[2]>>

-----------------------------------------------------------------------------
(* Claims about addPolymorphicUnionType, checked under SpecUnion           *)

RECURSIVE withoutDuplicates(_)
withoutDuplicates(names) ==
  IF Len(names) = 0 THEN <<>>
  ELSE LET front == withoutDuplicates(SubSeq(names, 1, Len(names) - 1))
           last  == names[Len(names)]
       IN  IF \E i \in 1..Len(front) : front[i] = last THEN front ELSE Append(front, last)

objectTypeNames(document) ==
  LET kept == SelectSeq(document, LAMBDA d : d.keyword = "type" /\ d.name # "Query")
  IN  [i \in 1..Len(kept) |-> kept[i].name]

\* C6: the members of the union Morph are the names of the object-type
\* definitions other than Query, in order of appearance and without duplicates
\* (a name defined twice is listed once); with no such definition the returned
\* definition is the empty string and the resolvers map is empty.
C6_UnionMembersDuplicateFree ==
  pc = "unionAdded" =>
    LET expected == withoutDuplicates(objectTypeNames(utDocument))
    IN  /\ utResult.members = expected
        /\ expected # <<>> =>
             /\ utResult.definition = "union Morph = " \o join(expected, " | ")
             /\ utResult.resolvers = {"Morph"}
        /\ expected = <<>> => utResult.definition = "" /\ utResult.resolvers = {}

-----------------------------------------------------------------------------
(* Claims about toSDL, checked under SpecSdl                               *)

allPlainTypeStrings(fields) == \A i \in 1..Len(fields) : fields[i].value.isString

\* C8 as stated: for a field map of plain type strings, every configuration
\* map and every owning model, the operation-mode text equals the fields-mode
\* text.
C8_OperationEqualsFields ==
  (pc = "operationRendered" /\ allPlainTypeStrings(sdlArgs.fields)) =>
    sdlOper = sdlFields

\* The field's configuration entry is not a description string, and what the
\* model declares for the field is overridden by the configuration entry.
sameMetadatasInBothModes(entry) ==
  LET name          == attributeNameOf(entry.key)
      configuration == lookup(sdlArgs.configurations, name)
      attribute     == lookup(sdlArgs.model.attributes, name)
  IN  /\ configuration.kind # "string"
      /\ truthy(attribute.description) => truthy(configuration.description)
      /\ truthy(attribute.deprecated)  => truthy(configuration.deprecated)

\* C8 amended: for a field map of plain type strings the operation-mode text
\* equals the fields-mode text provided that, for every field, the
\* configuration entry is absent or an object (not a description string) and
\* the owning model declares no description or deprecation for the field that
\* the configuration entry does not override; operation mode ignores a
\* description string and never reads the model.
C8_OperationEqualsFieldsOnObjectEntries ==
  (/\ pc = "operationRendered" /\ allPlainTypeStrings(sdlArgs.fields)
   /\ \A i \in 1..Len(sdlArgs.fields) : sameMetadatasInBothModes(sdlArgs.fields[i])) =>
    sdlOper = sdlFields

\* posts(limit: Int): String with a description and a deprecation configured
\* for posts: both modes write the description block and the directive.
C8_Witness ==
  /\ pc = "operationRendered"
  /\ Len(sdlArgs.fields) = 1
  /\ sdlArgs.fields[1].key = <<"posts", "(", "limit: Int", ")">>
  /\ sdlArgs.fields[1].value.isString
  /\ sdlArgs.configurations["posts"].kind = "object"
  /\ sdlArgs.configurations["posts"].description = "The posts"
  /\ sdlArgs.configurations["posts"].deprecated = "Use articles"
  /\ sdlOper = sdlFields
  /\ sdlOper = "\"\"\"\nThe posts\n\"\"\"\nposts(limit: Int): String"
                 \o " @deprecated(reason: \"Use articles\")"

-----------------------------------------------------------------------------
(* Claims about mergeSchemas and beforeInitialize, checked under SpecHook  *)

RECURSIVE getIn(_, _)
getIn(value, path) ==
  IF Len(path) = 0 THEN value ELSE getIn(get(value, Head(path)), Tail(path))

\* The resolver and type-map entries the fragments of the model define.
EntryPaths ==
  { <<"resolver", "Query", "x">>, <<"type", "Article", "title">>,
    <<"type", "Article">> }

definers(list, path) == {i \in 1..Len(list) : getIn(list[i], path).kind # "undef"}

Max(S) == CHOOSE m \in S : \A n \in S : n <= m

\* Every sub-field that `value` defines has, in `entry`, the value it has in
\* `value`.
RECURSIVE covers(_, _)
covers(entry, value) ==
  CASE value.kind = "undef" -> TRUE
    [] value.kind = "obj"   ->
         /\ entry.kind = "obj"
         /\ \A k \in keys(value) : covers(get(entry, k), value.fields[k])
    [] OTHER                -> entry = value

\* C3 as stated: for a key defined by more than one fragment, the merged entry
\* is exactly the value of the last fragment that defines it, whether the
\* colliding values are functions or plain objects.
C3_LastFragmentWinsEntirely ==
  pc = "initialized" =>
    \A path \in EntryPaths :
      LET D == definers(mergeList, path)
      IN  Cardinality(D) > 1 =>
            getIn(baseSchema, path) = getIn(mergeList[Max(D)], path)

\* C3 amended: for a key defined by more than one fragment, the merged entry is
\* exactly the value of the last fragment that defines it when that value is a
\* function or a string; when that value is a plain object it is merged
\* recursively into the earlier one: every sub-field the last fragment defines
\* has the last fragment's value, and the sub-fields that only the previous
\* defining fragment's plain object has survive in the merged entry.
C3_LastFragmentWinsPerSubField ==
  pc = "initialized" =>
    \A path \in EntryPaths :
      LET D      == definers(mergeList, path)
          last   == getIn(mergeList[Max(D)], path)
          before == getIn(mergeList[Max(D \ {Max(D)})], path)
          merged == getIn(baseSchema, path)
      IN  Cardinality(D) > 1 =>
            /\ ~isPlainObject(last) => merged = last
            /\ isPlainObject(last) =>
                 /\ covers(merged, last)
                 /\ isPlainObject(before) =>
                      \A k \in keys(before) \ keys(last) :
                        get(merged, k) = get(before, k)

\* Two fragments define resolver.Query.x as plain objects and the merged entry
\* keeps 'policies', which only the earlier one has.
C3_Witness ==
  /\ pc = "initialized"
  /\ LET path == <<"resolver", "Query", "x">>
         D    == definers(mergeList, path)
     IN  /\ Cardinality(D) = 2
         /\ "policies" \in keys(getIn(mergeList[Max(D \ {Max(D)})], path))
         /\ "policies" \notin keys(getIn(mergeList[Max(D)], path))
         /\ "policies" \in keys(getIn(baseSchema, path))

\* The sources in the order their fragments are merged.
mergedSources == siapi.plugins \o siapi.extensions \o siapi.api

\* C9: every plain-object resolver entry of the merged base schema carries a
\* _metadatas that names exactly the one source of the winning (last) entry:
\* its api or its plugin, never both.
C9_MetadataNamesOneSource ==
  pc = "initialized" =>
    \A type \in keys(get(baseSchema, "resolver")) :
      \A name \in keys(getIn(baseSchema, <<"resolver", type>>)) :
        LET entry  == getIn(baseSchema, <<"resolver", type, name>>)
            meta   == get(entry, "_metadatas")
            D      == {i \in 1..Len(mergedSources) :
                         getIn(mergedSources[i].schema,
                               <<"resolver", type, name>>).kind # "undef"}
            winner == mergedSources[Max(D)]
        IN  isPlainObject(entry) =>
              /\ isPlainObject(meta)
              /\ IF winner.kind = "api"
                   THEN /\ get(meta, "api") = Str(<<winner.key>>)
                        /\ get(meta, "plugin") = Undef
                   ELSE /\ get(meta, "plugin") = Str(<<winner.key>>)
                        /\ get(meta, "api") = Undef

\* The pieces of the texts of the sources of one kind.
piecesOf(sources, field) ==
  UNION { {textOf(get(sources[i].schema, field))[j] :
             j \in 1..Len(textOf(get(sources[i].schema, field)))} :
          i \in 1..Len(sources) }

rank(piece, field) ==
  CASE piece \in piecesOf(siapi.plugins, field)    -> 1
    [] piece \in piecesOf(siapi.extensions, field) -> 2
    [] piece \in piecesOf(siapi.api, field)        -> 3
    [] OTHER                                       -> 0

\* The entry of the last source of the list that defines `path`.
lastDefined(sources, path) ==
  LET D == {i \in 1..Len(sources) : getIn(sources[i].schema, path).kind # "undef"}
  IN  IF D = {} THEN Undef ELSE getIn(sources[Max(D)].schema, path)

\* C10: the fragments are merged in the order plugins, extensions, APIs: the
\* definition, query and mutation texts of the base schema hold every source's
\* text, plugin text before extension text before API text, and on a key
\* collision an API's value takes precedence over an extension's, which takes
\* precedence over a plugin's.
C10_PluginsExtensionsApis ==
  pc = "initialized" =>
    /\ \A field \in {"definition", "query", "mutation"} :
         LET text == textOf(get(baseSchema, field))
         IN  /\ \A i, j \in 1..Len(text) :
                  (i < j /\ text[i] # " " /\ text[j] # " ")
                    => rank(text[i], field) <= rank(text[j], field)
             /\ \A i \in 1..Len(text) : text[i] # " " => rank(text[i], field) > 0
             /\ piecesOf(mergedSources, field) \subseteq {text[i] : i \in 1..Len(text)}
    /\ \A path \in EntryPaths :
         LET ofApi       == lastDefined(siapi.api, path)
             ofExtension == lastDefined(siapi.extensions, path)
             ofPlugin    == lastDefined(siapi.plugins, path)
             merged      == getIn(baseSchema, path)
         IN  IF ofApi.kind # "undef" THEN covers(merged, ofApi)
             ELSE IF ofExtension.kind # "undef" THEN covers(merged, ofExtension)
             ELSE covers(merged, ofPlugin)

\* A plugin, an extension and an API all define a definition text and the
\* resolver Query.x; the API's function is the merged entry.
C10_Witness ==
  /\ pc = "initialized"
  /\ Len(siapi.plugins) > 0 /\ Len(siapi.extensions) > 0 /\ Len(siapi.api) > 0
  /\ getIn(siapi.plugins[1].schema, <<"resolver", "Query", "x">>).kind = "obj"
  /\ getIn(siapi.extensions[1].schema, <<"resolver", "Query", "x">>).kind = "obj"
  /\ getIn(siapi.api[1].schema, <<"resolver", "Query", "x">>) = Fn("api.article")
  /\ getIn(baseSchema, <<"resolver", "Query", "x">>) = Fn("api.article")
  /\ textOf(get(baseSchema, "definition"))
       = <<" ", "plugin.upload.definition", " ", "extension.upload.definition",
           " ", "api.article.definition">>

====
